---- MODULE Spec2Model ----
(***************************************************************************)
(* A model of warehouse/sessions.py: the Session mapping with its dirty    *)
(* flag, the flash and CSRF helpers, the SessionFactory that loads a       *)
(* session from a signed cookie and a Redis entry and saves it on the      *)
(* response, and the tween that guards request.session.                    *)
(*                                                                         *)
(* Collaborators the file calls are modelled by what they do:              *)
(*   - Redis (get, setex, delete) is a map from keys to a blob with an     *)
(*     expiry instant; an entry is gone once the clock reaches it;         *)
(*   - msgpack is a tagged byte sequence that is written and parsed;       *)
(*   - crypto.TimestampSigner appends the signing instant and a MAC over   *)
(*     the payload and that instant, and unsign recomputes the MAC and     *)
(*     compares the age with max_age;                                      *)
(*   - crypto.random_token() never returns a token it returned before.     *)
(***************************************************************************)
EXTENDS Integers, Sequences, FiniteSets, TLC

\* ---------------------------------------------------------------- bounds

\* Requests that may be in flight together.
MaxSlots == 3
\* Requests served one after the other in one behaviour.
MaxRequests == 2
\* Session methods one view calls.
MaxOps == 2
\* Session methods one view calls when requests are in flight together.
MaxOverlappingOps == 1
\* Session methods the view calls when every method is tried.
MaxCalls == 3
\* Tokens crypto.random_token() can hand out in one behaviour.
MaxTokens == 4
\* Session methods one view calls when the CSRF helpers are tried.
MaxCsrfOps == 2

\* ------------------------------------------------------ program constants

\* SessionFactory.max_age
max_age == 12 * 60 * 60
\* SessionFactory.cookie_name
cookie_name == "session_id"
\* Session._csrf_token_key
csrf_token_key == "_csrf_token"
\* Session._flash_key
flash_key == "_flash_messages"

\* ------------------------------------------------------------ value space

\* The instants the clock takes: two within a lifetime of the start, the end of
\* that lifetime and the second after it.
Instants == {0, 2, max_age, max_age + 1}

TokenName == <<"t1", "t2", "t3", "t4", "t5", "t6", "t7", "t8">>
Tokens == {TokenName[i] : i \in 1..MaxTokens}

\* A value a session stores or a method returns. Every value has the same
\* shape, so that any two can be compared: t is the type.
NoneV == [t |-> "none", n |-> 0, s |-> "", l |-> << >>]
IntV(n) == [t |-> "int", n |-> n, s |-> "", l |-> << >>]
StrV(s) == [t |-> "str", n |-> 0, s |-> s, l |-> << >>]
ListV(l) == [t |-> "list", n |-> 0, s |-> "", l |-> l]
BoolV(b) == [t |-> "bool", n |-> IF b THEN 1 ELSE 0, s |-> "", l |-> << >>]
\* A hex digest: l lists what went into it.
HmacV(l) == [t |-> "hmac", n |-> 0, s |-> "", l |-> l]

\* dict: a function from the keys present to their values.
EmptyDict == [k \in {} |-> NoneV]
Has(d, k) == k \in DOMAIN d
Put(d, k, v) == [x \in (DOMAIN d) \cup {k} |-> IF x = k THEN v ELSE d[x]]
Drop(d, k) == [x \in (DOMAIN d) \ {k} |-> d[x]]
\* dict.get(k, default)
Get(d, k, default) == IF Has(d, k) THEN d[k] ELSE default
\* dict.update(m)
Merge(d, m) == [x \in (DOMAIN d) \cup (DOMAIN m) |-> IF x \in DOMAIN m THEN m[x] ELSE d[x]]

\* Session._get_flash_queue_key: ".".join(filter(None, [_flash_key, queue]))
get_flash_queue_key(queue) ==
  IF queue = "" THEN flash_key
  ELSE IF queue = "q" THEN "_flash_messages.q"
  ELSE "_flash_messages.other"

\* The keys a view uses, in the order the serializer writes them.
KeyOrder == <<"a", "b", csrf_token_key, flash_key, "_flash_messages.q">>
Keys == {KeyOrder[i] : i \in 1..Len(KeyOrder)}
UserKeys == {"a", "b"}
UserVals == {IntV(1), IntV(2)}
Queues == {"", "q"}
Msgs == {"x", "y"}
Scopes == {"a", "b"}

\* ------------------------------------------------------------- serializer

Byte(t, n, s) == [t |-> t, n |-> n, s |-> s]

RECURSIVE PackStrs(_)
PackStrs(l) ==
  IF l = << >> THEN << >>
  ELSE <<Byte("str", 0, Head(l))>> \o PackStrs(Tail(l))

\* A list written as its header alone
PackValNoElements(v) ==
  CASE v.t = "int" -> <<Byte("int", v.n, "")>>
    [] v.t = "str" -> <<Byte("str", 0, v.s)>>
    [] v.t = "list" -> <<Byte("arr", Len(v.l), "")>>
    [] v.t = "bool" -> <<Byte("bool", v.n, "")>>
    [] OTHER -> <<Byte("nil", 0, "")>>

PackVal(v) ==
  CASE v.t = "int" -> <<Byte("int", v.n, "")>>
    [] v.t = "str" -> <<Byte("str", 0, v.s)>>
    [] v.t = "list" -> <<Byte("arr", Len(v.l), "")>> \o PackStrs(v.l)
    [] v.t = "bool" -> <<Byte("bool", v.n, "")>>
    [] OTHER -> <<Byte("nil", 0, "")>>

RECURSIVE PackEntries(_, _)
PackEntries(d, i) ==
  IF i > Len(KeyOrder) THEN << >>
  ELSE IF Has(d, KeyOrder[i])
       THEN <<Byte("str", 0, KeyOrder[i])>> \o PackVal(d[KeyOrder[i]])
              \o PackEntries(d, i + 1)
       ELSE PackEntries(d, i + 1)

\* msgpack.packb(session, encoding="utf8", use_bin_type=True)
packb(d) == <<Byte("map", Cardinality(DOMAIN d), "")>> \o PackEntries(d, 1)

\* The parser's answer: ok, the object read and the position after it.
Parsed(ok, v, next) == [ok |-> ok, v |-> v, next |-> next]

StrsAt(b, i, n) == [j \in 1..n |-> b[i + j - 1].s]

\* One object that is not a map, read at position i.
ParseVal(b, i) ==
  IF i > Len(b) THEN Parsed(FALSE, NoneV, i)
  ELSE CASE b[i].t = "int" -> Parsed(TRUE, IntV(b[i].n), i + 1)
         [] b[i].t = "str" -> Parsed(TRUE, StrV(b[i].s), i + 1)
         [] b[i].t = "bool" -> Parsed(TRUE, BoolV(b[i].n = 1), i + 1)
         [] b[i].t = "nil" -> Parsed(TRUE, NoneV, i + 1)
         [] b[i].t = "arr" ->
              IF i + b[i].n <= Len(b) /\ \A j \in 1..b[i].n : b[i + j].t = "str"
              THEN Parsed(TRUE, ListV(StrsAt(b, i + 1, b[i].n)), i + 1 + b[i].n)
              ELSE Parsed(FALSE, NoneV, i)
         [] OTHER -> Parsed(FALSE, NoneV, i)

\* n key/value pairs read from position i into the dict acc.
RECURSIVE ParseEntries(_, _, _, _)
ParseEntries(b, i, n, acc) ==
  IF n = 0 THEN [ok |-> TRUE, d |-> acc, next |-> i]
  ELSE IF i > Len(b) \/ b[i].t # "str" THEN [ok |-> FALSE, d |-> acc, next |-> i]
  ELSE LET v == ParseVal(b, i + 1)
       IN IF v.ok THEN ParseEntries(b, v.next, n - 1, Put(acc, b[i].s, v.v))
          ELSE [ok |-> FALSE, d |-> acc, next |-> i]

\* msgpack.unpackb(bdata, encoding="utf8", use_list=True): the exception raised
\* ("none" when it returns), whether the object is a map, and the map.
unpackb(b) ==
  IF b = << >> THEN [exc |-> "UnpackException", ismap |-> FALSE, d |-> EmptyDict]
  ELSE IF b[1].t = "map"
  THEN LET p == ParseEntries(b, 2, b[1].n, EmptyDict)
       IN IF ~p.ok THEN [exc |-> "UnpackException", ismap |-> FALSE, d |-> EmptyDict]
          ELSE IF p.next <= Len(b)
          THEN [exc |-> "ExtraData", ismap |-> FALSE, d |-> EmptyDict]
          ELSE [exc |-> "none", ismap |-> TRUE, d |-> p.d]
  ELSE LET p == ParseVal(b, 1)
       IN IF ~p.ok THEN [exc |-> "UnpackException", ismap |-> FALSE, d |-> EmptyDict]
          ELSE IF p.next <= Len(b)
          THEN [exc |-> "ExtraData", ismap |-> FALSE, d |-> EmptyDict]
          ELSE [exc |-> "none", ismap |-> FALSE, d |-> EmptyDict]

\* ----------------------------------------------------------------- signer

Secret == "secret"
NoCookie == [payload |-> "", ts |-> 0, mac |-> <<"", "", 0>>]
Mac(key, payload, ts) == <<key, payload, ts>>

\* TimestampSigner.sign(value) at instant t
sign(payload, t) == [payload |-> payload, ts |-> t, mac |-> Mac(Secret, payload, t)]

\* TimestampSigner.unsign(token, max_age) at instant t: the exception raised
\* ("none" when it returns) and the payload.
unsign(token, maxAge, t) ==
  IF token.mac # Mac(Secret, token.payload, token.ts)
  THEN [exc |-> "BadSignature", payload |-> ""]
  ELSE IF t - token.ts > maxAge
  THEN [exc |-> "BadSignature", payload |-> ""]
  ELSE [exc |-> "none", payload |-> token.payload]

\* ------------------------------------------------------------------ store

NoEntry == [present |-> FALSE, blob |-> << >>, expires |-> 0]
Entry(blob, expires) == [present |-> TRUE, blob |-> blob, expires |-> expires]

\* SessionFactory._redis_key
redis_key(session_id) == <<"warehouse/session/data/", session_id>>
StoreKeys == {redis_key(TokenName[i]) : i \in 1..Len(TokenName)}

\* redis.get(key) at instant t: the entry, absent once its expiry is reached.
redis_get(st, key, t) ==
  IF st[key].present /\ t < st[key].expires THEN st[key] ELSE NoEntry
\* redis.setex(key, ttl, blob) at instant t
redis_setex(st, key, ttl, blob, t) == [st EXCEPT ![key] = Entry(blob, t + ttl)]
\* A delete that leaves the entry
redis_delete_nothing(st, key) == st
\* redis.delete(key)
redis_delete(st, key) == [st EXCEPT ![key] = NoEntry]

\* ---------------------------------------------------------------- Session

NoSid == ""

\* crypto.random_token(): the next token never handed out before, rnd being the
\* number of tokens drawn so far.
random_token(rnd) == TokenName[rnd + 1]

\* What a method call leaves: the session, the value returned, the exception
\* raised ("none" when it returns) and the number of random tokens drawn.
Result(s, ret, err, rnd) == [s |-> s, ret |-> ret, err |-> err, rnd |-> rnd]

\* Session.__init__(data, session_id, new) at instant t
SessionInit(data, session_id, new, t) ==
  [data |-> data, sid |-> session_id, changed |-> FALSE, new |-> new,
   created |-> t, invalidated |-> FALSE]

\* Session(): every argument at its default (data=None, session_id=None, new=True)
NewSession(t) == SessionInit(EmptyDict, NoSid, TRUE, t)

\* Session.changed
changed(s) == [s EXCEPT !.changed = TRUE]

\* Session.should_save
should_save(s) == s.changed

\* Session.sid generating a token on every read and keeping none
sid_get_keeps_none(s, rnd) ==
  Result(s, StrV(random_token(rnd)), "none", rnd + 1)

\* Session.sid (the property): generated on the first read
sid_get(s, rnd) ==
  IF s.sid = NoSid
  THEN Result([s EXCEPT !.sid = random_token(rnd)], StrV(random_token(rnd)), "none", rnd + 1)
  ELSE Result(s, StrV(s.sid), "none", rnd)

\* The deleter leaving the identifier in place
sid_del_keeps(s) == s

\* Session.sid (the deleter)
sid_del(s) == [s EXCEPT !.sid = NoSid]

\* The dict methods wrapped by _changed_method: self.changed() runs first, then
\* the dict method, which may raise.
setitem(s, k, v, rnd) ==
  Result([changed(s) EXCEPT !.data = Put(@, k, v)], NoneV, "none", rnd)

delitem(s, k, rnd) ==
  IF Has(s.data, k)
  THEN Result([changed(s) EXCEPT !.data = Drop(@, k)], NoneV, "none", rnd)
  ELSE Result(changed(s), NoneV, "KeyError", rnd)

clear(s, rnd) == Result([changed(s) EXCEPT !.data = EmptyDict], NoneV, "none", rnd)

\* pop(k): no default
pop(s, k, rnd) ==
  IF Has(s.data, k)
  THEN Result([changed(s) EXCEPT !.data = Drop(@, k)], s.data[k], "none", rnd)
  ELSE Result(changed(s), NoneV, "KeyError", rnd)

\* pop(k, default) marking the session only when it removes the key
pop_default_when_present(s, k, default, rnd) ==
  IF Has(s.data, k)
  THEN Result([changed(s) EXCEPT !.data = Drop(@, k)], s.data[k], "none", rnd)
  ELSE Result(s, default, "none", rnd)

\* pop(k, default)
pop_default(s, k, default, rnd) ==
  IF Has(s.data, k)
  THEN Result([changed(s) EXCEPT !.data = Drop(@, k)], s.data[k], "none", rnd)
  ELSE Result(changed(s), default, "none", rnd)

\* popitem(), k being the key the dict gives up
popitem(s, k, rnd) ==
  IF s.data = EmptyDict
  THEN Result(changed(s), NoneV, "KeyError", rnd)
  ELSE Result([changed(s) EXCEPT !.data = Drop(@, k)], s.data[k], "none", rnd)

\* setdefault marking the session only when it inserts
setdefault_when_absent(s, k, default, rnd) ==
  IF Has(s.data, k)
  THEN Result(s, s.data[k], "none", rnd)
  ELSE Result([changed(s) EXCEPT !.data = Put(@, k, default)], default, "none", rnd)

setdefault(s, k, default, rnd) ==
  IF Has(s.data, k)
  THEN Result(changed(s), s.data[k], "none", rnd)
  ELSE Result([changed(s) EXCEPT !.data = Put(@, k, default)], default, "none", rnd)

update(s, m, rnd) == Result([changed(s) EXCEPT !.data = Merge(@, m)], NoneV, "none", rnd)

\* dict.get(k): not wrapped
get(s, k, rnd) == Result(s, Get(s.data, k, NoneV), "none", rnd)

\* Session.invalidate without its last line, self._changed = False
invalidate_stays_changed(s, t, rnd) ==
  Result([clear(s, rnd).s EXCEPT !.new = TRUE, !.created = t, !.invalidated = TRUE],
         NoneV, "none", rnd)

\* Session.invalidate at instant t
invalidate(s, t, rnd) ==
  Result([clear(s, rnd).s EXCEPT !.new = TRUE, !.created = t,
                                 !.invalidated = TRUE, !.changed = FALSE],
         NoneV, "none", rnd)

InList(x, l) == \E i \in 1..Len(l) : l[i] = x

\* Session.flash
flash(s, msg, queue, allow_duplicate, rnd) ==
  LET queue_key == get_flash_queue_key(queue)
  IN IF ~allow_duplicate /\ ~Has(s.data, queue_key)
     THEN \* self[queue_key] raises
          Result(s, NoneV, "KeyError", rnd)
     ELSE IF ~allow_duplicate /\ InList(msg, s.data[queue_key].l)
     THEN Result(s, NoneV, "none", rnd)
     ELSE LET q == setdefault(s, queue_key, ListV(<< >>), rnd)
          IN Result([q.s EXCEPT !.data[queue_key] = ListV(Append(q.ret.l, msg))],
                    NoneV, "none", rnd)

\* Session.peek_flash
peek_flash(s, queue, rnd) ==
  Result(s, Get(s.data, get_flash_queue_key(queue), ListV(<< >>)), "none", rnd)

\* Session.pop_flash
pop_flash(s, queue, rnd) ==
  LET queue_key == get_flash_queue_key(queue)
      messages == Get(s.data, queue_key, ListV(<< >>))
  IN Result(pop_default(s, queue_key, NoneV, rnd).s, messages, "none", rnd)

\* Session.new_csrf_token
new_csrf_token(s, rnd) ==
  Result(setitem(s, csrf_token_key, StrV(random_token(rnd)), rnd).s,
         StrV(random_token(rnd)), "none", rnd + 1)

\* Session.get_csrf_token
get_csrf_token(s, rnd) ==
  LET token == Get(s.data, csrf_token_key, NoneV)
  IN IF token = NoneV THEN new_csrf_token(s, rnd) ELSE Result(s, token, "none", rnd)

\* Session.has_csrf_token
has_csrf_token(s, rnd) == Result(s, BoolV(Has(s.data, csrf_token_key)), "none", rnd)

\* hmac.new(key, msg, "sha512").hexdigest(), the hash taken as injective: the
\* digest is the key followed by the message.
hmac_hex(key, msg) == key \o <<msg>>

\* Session.get_scoped_csrf_token: the unscoped token is read (and generated)
\* first, the identifier after it.
get_scoped_csrf_token(s, scope, rnd) ==
  LET unscoped == get_csrf_token(s, rnd)
      scoped == hmac_hex(<<unscoped.ret.s>>, scope)
      id == sid_get(unscoped.s, unscoped.rnd)
  IN Result(id.s, HmacV(hmac_hex(scoped, id.ret.s)), "none", id.rnd)

\* ---------------------------------------------------------- InvalidSession

\* _invalid_method and InvalidSession.__getattr__: every use raises.
invalid_method(s, rnd) == Result(s, NoneV, "RuntimeError", rnd)

\* -------------------------------------------------------- SessionFactory

\* What _process_request leaves: why it answered as it did, the exception that
\* escaped it ("none" when it returns) and the session returned.
Loaded(outcome, exc, s) == [outcome |-> outcome, exc |-> exc, s |-> s]

\* self.signer.unsign(session_id, max_age=self.max_age), with the maximum age
\* twice what it is
unsign_cookie_twice(cookie, t) == unsign(cookie, max_age + max_age, t)

\* self.signer.unsign(session_id, max_age=self.max_age)
unsign_cookie(cookie, t) == unsign(cookie, max_age, t)

\* _process_request keeping the cookie's identifier for the session it returns
\* when the entry is absent or cannot be decoded
process_request_adopts(cookie, st, t) ==
  IF cookie = NoCookie THEN Loaded("no_cookie", "none", NewSession(t))
  ELSE
    LET u == unsign_cookie(cookie, t)
    IN IF u.exc = "BadSignature" THEN Loaded("bad_signature", "none", NewSession(t))
       ELSE
         LET bdata == redis_get(st, redis_key(u.payload), t)
         IN IF ~bdata.present
            THEN Loaded("absent", "none", SessionInit(EmptyDict, u.payload, TRUE, t))
            ELSE
              LET data == unpackb(bdata.blob)
              IN IF data.exc \in {"UnpackException", "ExtraData"}
                 THEN Loaded("undecodable", "none", SessionInit(EmptyDict, u.payload, TRUE, t))
                 ELSE IF ~data.ismap
                 THEN Loaded("not_a_mapping", "TypeError", NewSession(t))
                 ELSE Loaded("loaded", "none", SessionInit(data.d, u.payload, TRUE, t))

\* SessionFactory._process_request at instant t, cookie being
\* request.cookies.get(cookie_name)
process_request(cookie, st, t) ==
  IF cookie = NoCookie THEN Loaded("no_cookie", "none", NewSession(t))
  ELSE
    LET u == unsign_cookie(cookie, t)
    IN IF u.exc = "BadSignature" THEN Loaded("bad_signature", "none", NewSession(t))
       ELSE
         LET bdata == redis_get(st, redis_key(u.payload), t)
         IN IF ~bdata.present THEN Loaded("absent", "none", NewSession(t))
            ELSE
              LET data == unpackb(bdata.blob)
              IN IF data.exc \in {"UnpackException", "ExtraData"}
                 THEN Loaded("undecodable", "none", NewSession(t))
                 ELSE IF ~data.ismap
                 THEN \* dict.__init__ of an object that is no mapping
                      Loaded("not_a_mapping", "TypeError", NewSession(t))
                 ELSE \* Session(data, session_id): new is left at its default
                      Loaded("loaded", "none", SessionInit(data.d, u.payload, TRUE, t))

NoResponse ==
  [set_cookie |-> FALSE, name |-> "", value |-> NoCookie, max_age |-> 0,
   httponly |-> FALSE, delete_cookie |-> FALSE]

StoreOp(op, key, blob, ttl) == [op |-> op, key |-> key, blob |-> blob, ttl |-> ttl]

\* The second branch of _process_response taken whatever the dirty flag says
saves_always(s, was_invalidated) == TRUE

\* The second branch of _process_response taken only when the first was not
saves_elif(s, was_invalidated) == should_save(s) /\ ~was_invalidated

\* The second branch of _process_response: if request.session.should_save()
saves(s, was_invalidated) == should_save(s)

\* The entry written, were the session's data laid over the entry in the store
saved_blob_merged(s, st, key) ==
  IF st[key].present /\ unpackb(st[key].blob).ismap
  THEN packb(Merge(unpackb(st[key].blob).d, s.data))
  ELSE packb(s.data)

\* The entry written: msgpack.packb(request.session, ...)
saved_blob(s, st, key) == packb(s.data)

\* SessionFactory._process_response at instant t on the session s: the session,
\* the store, the response, the store calls made in order, the tokens drawn.
process_response(s, st, t, rnd) ==
  LET old == sid_get(s, rnd)
      \* after the invalidated branch
      s1 == IF s.invalidated THEN sid_del(old.s) ELSE s
      st1 == IF s.invalidated THEN redis_delete(st, redis_key(old.ret.s)) ELSE st
      rnd1 == IF s.invalidated THEN old.rnd ELSE rnd
      log1 == IF s.invalidated
              THEN <<StoreOp("delete", redis_key(old.ret.s), << >>, 0)>> ELSE << >>
      delete_cookie == s.invalidated /\ ~should_save(s1)
      \* the save branch
      cur == sid_get(s1, rnd1)
      blob == saved_blob(cur.s, st1, redis_key(cur.ret.s))
  IN IF saves(s1, s.invalidated)
     THEN [s |-> cur.s,
           st |-> redis_setex(st1, redis_key(cur.ret.s), max_age, blob, t),
           resp |-> [set_cookie |-> TRUE, name |-> cookie_name,
                     value |-> sign(cur.ret.s, t), max_age |-> max_age,
                     httponly |-> TRUE, delete_cookie |-> delete_cookie],
           log |-> log1 \o <<StoreOp("setex", redis_key(cur.ret.s), blob, max_age)>>,
           rnd |-> cur.rnd]
     ELSE [s |-> s1, st |-> st1,
           resp |-> [NoResponse EXCEPT !.delete_cookie = delete_cookie,
                                       !.name = IF delete_cookie THEN cookie_name ELSE ""],
           log |-> log1, rnd |-> rnd1]

\* ------------------------------------------------------------------ state

VARIABLES
  now,       \* the clock (time.time())
  store,     \* Redis: key -> entry
  jar,       \* the signed cookies responses have set so far
  drawn,       \* the number of tokens random_token() has returned
  served,    \* the number of requests started
  pc,        \* per slot: where its request is
  cookie,    \* per slot: request.cookies.get(cookie_name)
  session,   \* per slot: the Session the factory returned (request._session)
  attr,      \* per slot: what request.session is bound to: "real" or "guard"
  ops,       \* per slot: the method calls the view has made
  response,  \* per slot: what _process_response did to the response
  outcome,   \* per slot: how _process_request answered
  loaded,    \* per slot: the data the session was constructed with
  call,      \* per slot: the last method the view called, with its arguments
  ret,       \* per slot: what that call returned
  err,       \* per slot: the exception that call raised, "none" if none
  log,       \* per slot: the store calls _process_response made
  last       \* per store key: the last thing that happened to its entry

vars == <<now, store, jar, drawn, served, pc, cookie, session, attr, ops, response,
          outcome, loaded, call, ret, err, log, last>>

Slots == 1..MaxSlots

NoCall == [name |-> "", k |-> "", v |-> NoneV, flag |-> FALSE]
Call(name, k, v, flag) == [name |-> name, k |-> k, v |-> v, flag |-> flag]

EmptyStore == [k \in StoreKeys |-> NoEntry]

\* The history of the store, kept for the properties: for every key the last
\* call on it ("setex", "delete", or "damage" when the entry was damaged), the
\* slot that made it, the data written, the instant, and whether the session
\* written was brand new.
Untouched ==
  [k \in StoreKeys |-> [op |-> "", by |-> 0, data |-> EmptyDict, at |-> 0, fresh |-> FALSE]]

RECURSIVE NotedFrom(_, _, _, _, _, _, _)
NotedFrom(h, ops_, i, by, data, at, fresh) ==
  IF i > Len(ops_) THEN h
  ELSE NotedFrom([h EXCEPT ![ops_[i].key] =
                    [op |-> ops_[i].op, by |-> by,
                     data |-> IF ops_[i].op = "setex" THEN data ELSE EmptyDict,
                     at |-> at, fresh |-> fresh]],
                 ops_, i + 1, by, data, at, fresh)

Noted(h, ops_, by, data, at, fresh) == NotedFrom(h, ops_, 1, by, data, at, fresh)

\* What a first request that sets "a" to 1 on a brand-new session leaves behind.
Earlier == process_response(setitem(NewSession(0), "a", IntV(1), 0).s, EmptyStore, 0, 0)

\* The program starts with an empty store, or with the session of one earlier
\* visitor saved at instant 0.
Init ==
  /\ now = 0
  /\ \/ store = EmptyStore /\ jar = {} /\ drawn = 0 /\ last = Untouched
     \/ /\ store = Earlier.st /\ jar = {Earlier.resp.value} /\ drawn = Earlier.rnd
        /\ last = Noted(Untouched, Earlier.log, 0, Earlier.s.data, 0, TRUE)
  /\ served = 0
  /\ pc = [r \in Slots |-> "idle"]
  /\ cookie = [r \in Slots |-> NoCookie]
  /\ session = [r \in Slots |-> NewSession(0)]
  /\ attr = [r \in Slots |-> "real"]
  /\ ops = [r \in Slots |-> 0]
  /\ response = [r \in Slots |-> NoResponse]
  /\ outcome = [r \in Slots |-> ""]
  /\ loaded = [r \in Slots |-> EmptyDict]
  /\ call = [r \in Slots |-> NoCall]
  /\ ret = [r \in Slots |-> NoneV]
  /\ err = [r \in Slots |-> "none"]
  /\ log = [r \in Slots |-> << >>]

\* ------------------------------------------------------------ environment

\* The cookies a client can present: none, one a response set, or one of those
\* with its payload changed to another stored session's identifier, its
\* timestamp changed to the present, or its signature changed.
Tampered(c) ==
  {[c EXCEPT !.payload = p] : p \in {q \in Tokens \ {c.payload} : store[redis_key(q)].present}}
    \cup {[c EXCEPT !.ts = t] : t \in {now} \ {c.ts}}
    \cup {[c EXCEPT !.mac = <<"forged", c.payload, c.ts>>]}

Presentable == {NoCookie} \cup jar \cup UNION {Tampered(c) : c \in jar}

\* Time passes; Redis drops the entries whose expiry is reached.
Tick ==
  /\ \E t \in Instants :
       /\ t > now
       /\ now' = t
       /\ store' = [k \in StoreKeys |->
                      IF store[k].present /\ store[k].expires <= t
                      THEN NoEntry ELSE store[k]]
  /\ UNCHANGED <<jar, drawn, served, pc, cookie, session, attr, ops, response,
                 outcome, loaded, call, ret, err, log, last>>

\* What a damaged entry can hold: the blob cut short, the blob with a byte more,
\* or a well-formed object that is no map.
Damaged(blob) ==
  {SubSeq(blob, 1, Len(blob) - 1), blob \o <<Byte("nil", 0, "")>>, <<Byte("int", 5, "")>>}

\* An entry of the store is damaged behind the program's back.
StoreCorrupt ==
  /\ \E k \in StoreKeys :
       /\ store[k].present
       /\ unpackb(store[k].blob).ismap
       /\ \E b \in Damaged(store[k].blob) :
            store' = [store EXCEPT ![k].blob = b]
       /\ last' = [last EXCEPT ![k].op = "damage"]
  /\ UNCHANGED <<now, jar, drawn, served, pc, cookie, session, attr, ops, response,
                 outcome, loaded, call, ret, err, log>>

\* ------------------------------------------------------------ the tween

\* session_tween, up to the call of the handler: reading request.session runs
\* the factory; the session is stashed and request.session becomes the guard.
SessionTween(r) ==
  /\ pc[r] = "idle"
  /\ \E c \in Presentable :
       LET got == process_request(c, store, now)
       IN /\ cookie' = [cookie EXCEPT ![r] = c]
          /\ outcome' = [outcome EXCEPT ![r] = got.outcome]
          /\ err' = [err EXCEPT ![r] = got.exc]
          /\ IF got.exc = "none"
             THEN /\ pc' = [pc EXCEPT ![r] = "view"]
                  /\ session' = [session EXCEPT ![r] = got.s]
                  /\ loaded' = [loaded EXCEPT ![r] = got.s.data]
                  /\ attr' = [attr EXCEPT ![r] = "guard"]
             ELSE /\ pc' = [pc EXCEPT ![r] = "failed"]
                  /\ UNCHANGED <<session, loaded, attr>>
  /\ served' = served + 1
  /\ UNCHANGED <<now, store, jar, drawn, ops, response, call, ret, log, last>>

\* uses_session: the wrapped view gets the stashed session back.
UsesSession(r) ==
  /\ pc[r] = "view"
  /\ attr[r] = "guard"
  /\ ops[r] = 0
  /\ attr' = [attr EXCEPT ![r] = "real"]
  /\ UNCHANGED <<now, store, jar, drawn, served, pc, cookie, session, ops, response,
                 outcome, loaded, call, ret, err, log, last>>

\* The view calls a method of request.session: c names the call, res is what
\* the method leaves when request.session is the Session.
Do(r, c, res) ==
  /\ pc[r] = "view"
  /\ LET out == IF attr[r] = "real" THEN res ELSE invalid_method(session[r], drawn)
     IN /\ out.rnd <= MaxTokens
        /\ session' = [session EXCEPT ![r] = out.s]
        /\ ret' = [ret EXCEPT ![r] = out.ret]
        /\ err' = [err EXCEPT ![r] = out.err]
        /\ drawn' = out.rnd
  /\ call' = [call EXCEPT ![r] = c]
  /\ ops' = [ops EXCEPT ![r] = @ + 1]
  /\ UNCHANGED <<now, store, jar, served, pc, cookie, attr, response, outcome,
                 loaded, log, last>>

SetItem(r, k, v) == Do(r, Call("setitem", k, v, FALSE), setitem(session[r], k, v, drawn))
DelItem(r, k) == Do(r, Call("delitem", k, NoneV, FALSE), delitem(session[r], k, drawn))
Clear(r) == Do(r, Call("clear", "", NoneV, FALSE), clear(session[r], drawn))
Pop(r, k) == Do(r, Call("pop", k, NoneV, FALSE), pop(session[r], k, drawn))
PopDefault(r, k) ==
  Do(r, Call("pop_default", k, NoneV, FALSE), pop_default(session[r], k, NoneV, drawn))
PopItem(r) ==
  \E k \in IF session[r].data = EmptyDict THEN {""} ELSE DOMAIN session[r].data :
    Do(r, Call("popitem", k, NoneV, FALSE), popitem(session[r], k, drawn))
SetDefault(r, k, v) ==
  Do(r, Call("setdefault", k, v, FALSE), setdefault(session[r], k, v, drawn))
Update(r, k, v) ==
  Do(r, Call("update", k, v, FALSE), update(session[r], Put(EmptyDict, k, v), drawn))
GetItem(r, k) == Do(r, Call("get", k, NoneV, FALSE), get(session[r], k, drawn))
Changed(r) ==
  Do(r, Call("changed", "", NoneV, FALSE), Result(changed(session[r]), NoneV, "none", drawn))
Invalidate(r) == Do(r, Call("invalidate", "", NoneV, FALSE), invalidate(session[r], now, drawn))
Flash(r, msg, queue, allow_duplicate) ==
  Do(r, Call("flash", queue, StrV(msg), allow_duplicate),
     flash(session[r], msg, queue, allow_duplicate, drawn))
PeekFlash(r, queue) ==
  Do(r, Call("peek_flash", queue, NoneV, FALSE), peek_flash(session[r], queue, drawn))
PopFlash(r, queue) ==
  Do(r, Call("pop_flash", queue, NoneV, FALSE), pop_flash(session[r], queue, drawn))
NewCsrfToken(r) ==
  Do(r, Call("new_csrf_token", "", NoneV, FALSE), new_csrf_token(session[r], drawn))
GetCsrfToken(r) ==
  Do(r, Call("get_csrf_token", "", NoneV, FALSE), get_csrf_token(session[r], drawn))
HasCsrfToken(r) ==
  Do(r, Call("has_csrf_token", "", NoneV, FALSE), has_csrf_token(session[r], drawn))

GetScopedCsrfToken(r, scope) ==
  Do(r, Call("get_scoped_csrf_token", scope, NoneV, FALSE),
     get_scoped_csrf_token(session[r], scope, drawn))
\* The view reads request.session.sid.
Sid(r) == Do(r, Call("sid", "", NoneV, FALSE), sid_get(session[r], drawn))

\* session_tween without its finally clause
tween_exit_nothing(bound) == bound

\* session_tween's finally clause: request.session = request._session
tween_exit(bound) == "real"

\* The handler returns a response.
ViewReturn(r) ==
  /\ pc[r] = "view"
  /\ pc' = [pc EXCEPT ![r] = "respond"]
  /\ attr' = [attr EXCEPT ![r] = tween_exit(attr[r])]
  /\ UNCHANGED <<now, store, jar, drawn, served, cookie, session, ops, response,
                 outcome, loaded, call, ret, err, log, last>>

\* The handler raises; an exception view may still answer the request.
ViewRaise(r) ==
  /\ pc[r] = "view"
  /\ pc' = [pc EXCEPT ![r] = "raised"]
  /\ attr' = [attr EXCEPT ![r] = tween_exit(attr[r])]
  /\ UNCHANGED <<now, store, jar, drawn, served, cookie, session, ops, response,
                 outcome, loaded, call, ret, err, log, last>>

\* The response callback: _process_response on request.session.
ProcessResponse(r) ==
  /\ pc[r] \in {"respond", "raised"}
  /\ IF attr[r] = "real"
     THEN LET out == process_response(session[r], store, now, drawn)
          IN /\ out.rnd <= MaxTokens
             /\ pc' = [pc EXCEPT ![r] = "done"]
             /\ session' = [session EXCEPT ![r] = out.s]
             /\ store' = out.st
             /\ response' = [response EXCEPT ![r] = out.resp]
             /\ log' = [log EXCEPT ![r] = out.log]
             /\ drawn' = out.rnd
             /\ jar' = IF out.resp.set_cookie THEN jar \cup {out.resp.value} ELSE jar
             /\ last' = Noted(last, out.log, r, out.s.data, now, outcome[r] # "loaded")
             /\ UNCHANGED err
     ELSE \* request.session.invalidated on the guard
          /\ pc' = [pc EXCEPT ![r] = "failed"]
          /\ err' = [err EXCEPT ![r] = "RuntimeError"]
          /\ UNCHANGED <<session, store, response, log, drawn, jar, last>>
  /\ UNCHANGED <<now, served, cookie, attr, ops, outcome, loaded, call, ret>>

\* The request is over and its objects are dropped.
EndRequest(r) ==
  /\ pc[r] \in {"done", "raised", "failed"}
  /\ pc' = [pc EXCEPT ![r] = "idle"]
  /\ cookie' = [cookie EXCEPT ![r] = NoCookie]
  /\ session' = [session EXCEPT ![r] = NewSession(0)]
  /\ attr' = [attr EXCEPT ![r] = "real"]
  /\ ops' = [ops EXCEPT ![r] = 0]
  /\ response' = [response EXCEPT ![r] = NoResponse]
  /\ outcome' = [outcome EXCEPT ![r] = ""]
  /\ loaded' = [loaded EXCEPT ![r] = EmptyDict]
  /\ call' = [call EXCEPT ![r] = NoCall]
  /\ ret' = [ret EXCEPT ![r] = NoneV]
  /\ err' = [err EXCEPT ![r] = "none"]
  /\ log' = [log EXCEPT ![r] = << >>]
  /\ UNCHANGED <<now, store, jar, drawn, served, last>>

\* --------------------------------------------------------- specifications

\* One visitor after the other, with time passing and the store damaged.
Next ==
  \/ Tick
  \/ StoreCorrupt
  \/ served < MaxRequests /\ SessionTween(1)
  \/ UsesSession(1)
  \/ ViewReturn(1)
  \/ ViewRaise(1)
  \/ ProcessResponse(1)
  \/ EndRequest(1)
  \/ ops[1] < MaxOps /\ SetItem(1, "a", IntV(1))
  \/ ops[1] < MaxOps /\ SetItem(1, "b", ListV(<<"x">>))
  \/ ops[1] < MaxOps /\ Invalidate(1)

Spec == Init /\ [][Next]_vars

\* One request whose view calls any method of the session.
NextOps ==
  \/ served < 1 /\ SessionTween(1)
  \/ UsesSession(1)
  \/ ViewReturn(1)
  \/ ViewRaise(1)
  \/ ProcessResponse(1)
  \/ ops[1] < MaxCalls /\ \E k \in UserKeys, v \in UserVals : SetItem(1, k, v)
  \/ ops[1] < MaxCalls /\ \E k \in Keys : DelItem(1, k)
  \/ ops[1] < MaxCalls /\ Clear(1)
  \/ ops[1] < MaxCalls /\ \E k \in Keys : Pop(1, k)
  \/ ops[1] < MaxCalls /\ \E k \in Keys : PopDefault(1, k)
  \/ ops[1] < MaxCalls /\ PopItem(1)
  \/ ops[1] < MaxCalls /\ \E k \in UserKeys, v \in UserVals : SetDefault(1, k, v)
  \/ ops[1] < MaxCalls /\ \E k \in UserKeys, v \in UserVals : Update(1, k, v)
  \/ ops[1] < MaxCalls /\ \E k \in Keys : GetItem(1, k)
  \/ ops[1] < MaxCalls /\ Changed(1)
  \/ ops[1] < MaxCalls /\ Invalidate(1)
  \/ ops[1] < MaxCalls /\ \E m \in Msgs, q \in Queues, d \in BOOLEAN : Flash(1, m, q, d)
  \/ ops[1] < MaxCalls /\ \E q \in Queues : PeekFlash(1, q)
  \/ ops[1] < MaxCalls /\ \E q \in Queues : PopFlash(1, q)
  \/ ops[1] < MaxCalls /\ NewCsrfToken(1)
  \/ ops[1] < MaxCalls /\ GetCsrfToken(1)
  \/ ops[1] < MaxCalls /\ HasCsrfToken(1)
  \/ ops[1] < MaxCalls /\ \E sc \in Scopes : GetScopedCsrfToken(1, sc)
  \/ ops[1] < MaxCalls /\ Sid(1)

SpecOps == Init /\ [][NextOps]_vars

\* Requests in flight together, numbered in the order they start.
NextOverlapping ==
  \E r \in Slots :
    \/ (IF r = 1 THEN TRUE ELSE pc[r - 1] # "idle") /\ SessionTween(r)
    \/ UsesSession(r)
    \/ ViewReturn(r)
    \/ ProcessResponse(r)
    \/ ops[r] < MaxOverlappingOps /\ \E k \in UserKeys : SetItem(r, k, IntV(1))
    \/ ops[r] < MaxOverlappingOps /\ Invalidate(r)

SpecOverlapping == Init /\ [][NextOverlapping]_vars

\* What a first request that sets "a" to 1 and flashes "x" on a brand-new
\* session leaves behind.
EarlierQueued ==
  process_response(
    flash(setitem(NewSession(0), "a", IntV(1), 0).s, "x", "", TRUE, 0).s, EmptyStore, 0, 0)

\* The program with the session of one earlier visitor, which holds a flash
\* queue, saved at instant 0.
InitQueued ==
  /\ now = 0
  /\ store = EarlierQueued.st
  /\ jar = {EarlierQueued.resp.value}
  /\ drawn = EarlierQueued.rnd
  /\ last = Noted(Untouched, EarlierQueued.log, 0, EarlierQueued.s.data, 0, TRUE)
  /\ served = 0
  /\ pc = [r \in Slots |-> "idle"]
  /\ cookie = [r \in Slots |-> NoCookie]
  /\ session = [r \in Slots |-> NewSession(0)]
  /\ attr = [r \in Slots |-> "real"]
  /\ ops = [r \in Slots |-> 0]
  /\ response = [r \in Slots |-> NoResponse]
  /\ outcome = [r \in Slots |-> ""]
  /\ loaded = [r \in Slots |-> EmptyDict]
  /\ call = [r \in Slots |-> NoCall]
  /\ ret = [r \in Slots |-> NoneV]
  /\ err = [r \in Slots |-> "none"]
  /\ log = [r \in Slots |-> << >>]

\* One request, whose view calls any method of the session, after that visitor.
SpecQueued == InitQueued /\ [][NextOps]_vars

\* Two requests, the second started once the response of the first is made,
\* whose views use the CSRF helpers.
NextCsrf ==
  \E r \in 1..2 :
    \/ (IF r = 1 THEN TRUE ELSE pc[1] = "done") /\ SessionTween(r)
    \/ UsesSession(r)
    \/ ViewReturn(r)
    \/ ProcessResponse(r)
    \/ ops[r] < MaxCsrfOps /\ \E sc \in Scopes : GetScopedCsrfToken(r, sc)
    \/ ops[r] < MaxCsrfOps /\ NewCsrfToken(r)
    \/ ops[r] < MaxCsrfOps /\ Invalidate(r)

SpecCsrf == Init /\ [][NextCsrf]_vars

\* ------------------------------------------------------------- properties

\* The lifetime the specification states, in seconds.
Lifetime == 43200

\* The store key the cookie of slot r names.
Key(r) == redis_key(cookie[r].payload)

\* The factory has answered slot r and its view has called nothing yet.
Arrived(r) == pc[r] = "view" /\ ops[r] = 0

\* The entry at key k is the one the last save wrote, and has not expired.
Intact(k) == last[k].op = "setex" /\ now < last[k].at + max_age

\* A brand-new empty session: no data, no identifier, not dirty, not invalidated.
BrandNew(s) ==
  /\ s.data = EmptyDict
  /\ s.sid = NoSid
  /\ ~s.changed
  /\ ~s.invalidated
  /\ s.new

\* C1: round trip. A request that presents a cookie a response set, within the
\* lifetime and with the store entry as that save wrote it, gets a session
\* whose data is the mapping that was saved.
C1_RoundTrip ==
  \A r \in Slots :
    (Arrived(r) /\ cookie[r] \in jar /\ now - cookie[r].ts <= max_age /\ Intact(Key(r)))
      => /\ outcome[r] = "loaded"
         /\ session[r].data = last[Key(r)].data

\* C1 happens: a brand-new session on which "a" and "b" were set was saved by a
\* request of this behaviour and is loaded again.
C1_Witness ==
  /\ Arrived(1)
  /\ cookie[1] \in jar
  /\ outcome[1] = "loaded"
  /\ last[Key(1)].fresh
  /\ last[Key(1)].by = 1
  /\ session[1].data = Put(Put(EmptyDict, "a", IntV(1)), "b", ListV(<<"x">>))

\* C2, as stated: a cookie that unsigns and resolves to a decodable entry gives
\* a session with the decoded mapping, the verified identifier and isNew false.
C2_LoadedIsNotNew ==
  \A r \in Slots :
    (Arrived(r) /\ outcome[r] = "loaded")
      => /\ session[r].data = unpackb(store[Key(r)].blob).d \/ ~Intact(Key(r))
         /\ session[r].sid = cookie[r].payload
         /\ session[r].new = FALSE

\* C3, as stated: whenever the cookie or the stored payload is unusable, the
\* factory returns a brand-new empty session and raises nothing.
C3_FailOpen ==
  \A r \in Slots :
    (outcome[r] \notin {"", "loaded"} /\ ops[r] = 0 /\ pc[r] \in {"view", "failed"})
      => /\ pc[r] # "failed"
         /\ err[r] = "none"
         /\ BrandNew(session[r])

\* C4: after invalidate() with nothing after it, should_save() is false, and
\* the response callback deletes the entry at the session's key, clears the
\* cookie, writes no entry and sets no cookie.
C4_InvalidateOnly ==
  \A r \in Slots :
    (call[r].name = "invalidate" /\ err[r] = "none")
      => /\ ~should_save(session[r])
         /\ pc[r] = "done"
              => /\ Len(log[r]) = 1
                 /\ log[r][1].op = "delete"
                 /\ outcome[r] = "loaded" => log[r][1].key = Key(r)
                 /\ last[log[r][1].key].op = "delete"
                 /\ ~store[log[r][1].key].present
                 /\ response[r].delete_cookie
                 /\ ~response[r].set_cookie

\* C4 happens: a loaded session was invalidated and the response is made.
C4_Witness ==
  /\ pc[1] = "done"
  /\ call[1].name = "invalidate"
  /\ err[1] = "none"
  /\ outcome[1] = "loaded"
  /\ loaded[1] # EmptyDict
  /\ response[1].delete_cookie

\* C5: after invalidate() and then a set, the response callback deletes the
\* entry of the old identifier, then writes an entry that holds only what was
\* set after invalidate(), sets a cookie for it and does not clear the cookie.
C5_InvalidateThenSet ==
  \A r \in Slots :
    (pc[r] = "done" /\ session[r].invalidated /\ session[r].changed)
      => /\ Len(log[r]) = 2
         /\ log[r][1].op = "delete"
         /\ outcome[r] = "loaded" => log[r][1].key = Key(r)
         /\ log[r][2] = StoreOp("setex", redis_key(session[r].sid),
                                packb(session[r].data), max_age)
         /\ response[r].set_cookie
         /\ response[r].name = cookie_name
         /\ response[r].value.payload = session[r].sid
         /\ unsign(response[r].value, max_age, response[r].value.ts).exc = "none"
         /\ ~response[r].delete_cookie
         /\ (call[r].name = "setitem" /\ ops[r] = 2)
              => session[r].data = Put(EmptyDict, call[r].k, call[r].v)

\* C5 happens: a loaded session holding "a" was invalidated, "b" was set, and
\* the response is made.
C5_Witness ==
  /\ pc[1] = "done"
  /\ outcome[1] = "loaded"
  /\ Has(loaded[1], "a")
  /\ session[1].invalidated
  /\ call[1].name = "setitem"
  /\ call[1].k = "b"
  /\ Len(log[1]) = 2
  /\ ~Has(session[1].data, "a")

\* C6: a cookie signed more than 43200 seconds before the load gives a
\* brand-new empty session, and so does a cookie whose entry was last written
\* 43200 seconds or more before the load, each whatever the other tier says.
C6_TwoTierExpiry ==
  \A r \in Slots :
    (/\ Arrived(r)
     /\ cookie[r] # NoCookie
     /\ \/ session[r].created - cookie[r].ts > Lifetime
        \/ /\ last[Key(r)].op = "setex"
           /\ session[r].created >= last[Key(r)].at + Lifetime)
      => /\ outcome[r] # "loaded"
         /\ BrandNew(session[r])

\* C6 happens: a cookie a response set has aged out while the entry it names,
\* written again later, is still in the store.
C6_Witness ==
  /\ Arrived(1)
  /\ cookie[1] \in jar
  /\ session[1].created - cookie[1].ts > Lifetime
  /\ session[1].created = now
  /\ Intact(Key(1))
  /\ store[Key(1)].present
  /\ BrandNew(session[1])

\* The methods that write to the mapping whatever it holds.
Mutators ==
  {"setitem", "delitem", "pop", "pop_default", "popitem", "setdefault", "update",
   "clear", "pop_flash", "new_csrf_token"}

\* C7: every call of a method that adds, removes or overwrites an entry (the
\* wrapped dict methods, whatever they find, and any flash or CSRF helper that
\* changes the mapping) leaves the session dirty, and should_save() true.
C7_MutatorsMarkDirty ==
  [][\A r \in Slots :
       (/\ ops'[r] = ops[r] + 1
        /\ attr[r] = "real"
        /\ call'[r].name # "invalidate"
        /\ call'[r].name \in Mutators \/ session'[r].data # session[r].data)
         => session'[r].changed /\ should_save(session'[r])]_vars

\* C7 happens: "a" was set to the value it already had, and the session is
\* dirty though its data is what was loaded.
C7_Witness ==
  /\ pc[1] = "view"
  /\ ops[1] = 1
  /\ call[1] = Call("setitem", "a", IntV(1), FALSE)
  /\ err[1] = "none"
  /\ loaded[1] = Put(EmptyDict, "a", IntV(1))
  /\ session[1].data = loaded[1]
  /\ session[1].changed

\* C8: when two requests loaded the same session from the same cookie, both
\* changed it and both saved, the store entry is exactly the record of the one
\* that saved last, whatever the other had written.
C8_LastWriteWins ==
  \A r1, r2 \in Slots :
    (/\ r1 # r2
     /\ pc[r1] = "done" /\ pc[r2] = "done"
     /\ outcome[r1] = "loaded" /\ outcome[r2] = "loaded"
     /\ cookie[r1] = cookie[r2]
     /\ session[r1].changed /\ session[r2].changed
     /\ ~session[r1].invalidated /\ ~session[r2].invalidated
     /\ last[Key(r2)].op = "setex" /\ last[Key(r2)].by = r2)
      => /\ store[Key(r2)] = Entry(packb(session[r2].data), last[Key(r2)].at + max_age)
         /\ unpackb(store[Key(r2)].blob).d = session[r2].data

\* C8 happens: both requests loaded the same data, request 1 added "b" and
\* saved, request 2 saved after it, and "b" is not in the store.
C8_Witness ==
  /\ pc[1] = "done" /\ pc[2] = "done"
  /\ outcome[1] = "loaded" /\ outcome[2] = "loaded"
  /\ cookie[1] = cookie[2]
  /\ loaded[1] = loaded[2]
  /\ session[1].changed /\ session[2].changed
  /\ ~session[1].invalidated /\ ~session[2].invalidated
  /\ Has(session[1].data, "b")
  /\ ~Has(session[2].data, "b")
  /\ last[Key(2)].by = 2
  /\ ~Has(unpackb(store[Key(2)].blob).d, "b")

\* C9: a call on request.session in a view that did not opt in raises a usage
\* error and leaves the real session as it was loaded; once the tween is left,
\* by return or by exception, request.session is the real session, so the
\* response callback never meets the guard.
C9_AccessGuard ==
  \A r \in Slots :
    /\ (pc[r] = "view" /\ attr[r] = "guard" /\ ops[r] > 0)
         => /\ err[r] = "RuntimeError"
            /\ session[r].data = loaded[r]
            /\ session[r].sid = (IF outcome[r] = "loaded" THEN cookie[r].payload ELSE NoSid)
            /\ ~session[r].changed
            /\ ~session[r].invalidated
    /\ pc[r] \in {"respond", "raised", "done"} => attr[r] = "real"
    /\ ~(pc[r] = "failed" /\ err[r] = "RuntimeError")

\* C9 happens: the view did not opt in, its call on request.session raised, the
\* exception left the tween, and request.session is the real session.
C9_Witness ==
  /\ pc[1] = "raised"
  /\ ops[1] > 0
  /\ err[1] = "RuntimeError"
  /\ attr[1] = "real"
  /\ session[1].data = loaded[1]

\* The flash queue of the session s for the queue name q.
QueueOf(d, q) == Get(d, get_flash_queue_key(q), ListV(<< >>)).l

RECURSIVE Count(_, _)
Count(x, l) == IF l = << >> THEN 0 ELSE (IF Head(l) = x THEN 1 ELSE 0) + Count(x, Tail(l))

\* C10, as stated: flash(msg, allowDuplicate=false) on a session whose queue
\* does not hold msg, a session with no queue included, raises nothing and
\* leaves msg queued exactly once; peekFlash returns the queue and leaves it;
\* popFlash returns it and leaves none.
C10_DedupFlash ==
  \A r \in Slots :
    /\ (/\ call[r].name = "flash" /\ ~call[r].flag
        /\ pc[r] = "view" /\ attr[r] = "real" /\ ops[r] = 1
        /\ ~InList(call[r].v.s, QueueOf(loaded[r], call[r].k)))
         => /\ err[r] = "none"
            /\ Count(call[r].v.s, QueueOf(session[r].data, call[r].k)) = 1
    /\ (call[r].name = "peek_flash" /\ pc[r] = "view" /\ attr[r] = "real")
         => ret[r].l = QueueOf(session[r].data, call[r].k)
    /\ (call[r].name = "pop_flash" /\ pc[r] = "view" /\ attr[r] = "real")
         => QueueOf(session[r].data, call[r].k) = << >>

\* The view of slot r last called get_scoped_csrf_token, which returned.
Scoped(r) ==
  /\ call[r].name = "get_scoped_csrf_token"
  /\ attr[r] = "real"
  /\ err[r] = "none"
  /\ pc[r] \in {"view", "respond", "done"}

\* The identifier the session of slot r had when its view made its last call:
\* the response callback resets it on an invalidated session, after the delete.
SidAtCall(r) ==
  IF pc[r] = "done" /\ session[r].invalidated THEN log[r][1].key[2] ELSE session[r].sid

\* C11: after get_scoped_csrf_token(scope) a further call on the session draws
\* no token and returns the same value for the same scope and another value
\* for another scope; two sessions that hold the same unscoped token and have
\* different identifiers got different values for the same scope.
C11_ScopedCsrfTokens ==
  /\ \A r \in Slots :
       (Scoped(r) /\ pc[r] = "view")
         => \A sc \in Scopes :
              /\ get_scoped_csrf_token(session[r], sc, drawn).rnd = drawn
              /\ (get_scoped_csrf_token(session[r], sc, drawn).ret = ret[r]) <=> (sc = call[r].k)
  /\ \A r1, r2 \in Slots :
       (/\ Scoped(r1) /\ Scoped(r2)
        /\ call[r1].k = call[r2].k
        /\ session[r1].data[csrf_token_key] = session[r2].data[csrf_token_key])
         => (ret[r1] = ret[r2]) <=> (SidAtCall(r1) = SidAtCall(r2))

\* C11 happens: the second request called get_scoped_csrf_token twice with the
\* same scope, on a session that holds the unscoped token of the first
\* request's session under another identifier, and the first request's value
\* for that scope is another one.
C11_Witness ==
  /\ Scoped(1) /\ Scoped(2)
  /\ pc[2] = "view"
  /\ ops[2] = 2
  /\ call[1].k = call[2].k
  /\ session[1].data[csrf_token_key] = session[2].data[csrf_token_key]
  /\ SidAtCall(1) # SidAtCall(2)
  /\ ret[1] # ret[2]

\* C12: invalidate(), whatever the view did before it, leaves the session
\* empty, new, invalidated and not dirty, and the response callback that
\* follows writes no entry and sets no cookie.
C12_InvalidateAnyState ==
  \A r \in Slots :
    (call[r].name = "invalidate" /\ attr[r] = "real" /\ err[r] = "none")
      => /\ session[r].data = EmptyDict
         /\ session[r].new
         /\ session[r].invalidated
         /\ ~session[r].changed
         /\ pc[r] = "done"
              => /\ \A i \in 1..Len(log[r]) : log[r][i].op # "setex"
                 /\ ~response[r].set_cookie
                 /\ \A k \in StoreKeys : last[k].by = r => ~store[k].present

\* C12 happens: on a brand-new session of an empty store the view generated a
\* CSRF token, which made the session dirty, then called invalidate(), and the
\* response is made.
C12_Witness ==
  /\ pc[1] = "done"
  /\ outcome[1] = "no_cookie"
  /\ jar = {}
  /\ ops[1] = 2
  /\ call[1].name = "invalidate"
  /\ drawn = 2
  /\ store = EmptyStore

\* C13: while a view runs, an identifier that is set stays as it is and an
\* absent one is set only by a read of it, to a token drawn at that read; a
\* read returns the identifier the session then has. The response callback
\* changes an identifier that is set only on an invalidated session, and a
\* cookie it sets and an entry it writes carry the identifier the session has.
C13_LazyIdentifier ==
  [][\A r \in Slots :
       /\ (pc[r] = "view" /\ pc'[r] = "view" /\ attr[r] = "real")
            => /\ session[r].sid # NoSid => session'[r].sid = session[r].sid
               /\ session'[r].sid # session[r].sid
                    => /\ call'[r].name \in {"sid", "get_scoped_csrf_token"}
                       /\ drawn' > drawn
                       /\ session'[r].sid = TokenName[drawn']
               /\ (call'[r].name = "sid" /\ ops'[r] = ops[r] + 1)
                    => /\ session'[r].sid # NoSid
                       /\ ret'[r] = StrV(session'[r].sid)
       /\ (pc[r] \in {"respond", "raised"} /\ pc'[r] = "done")
            => /\ (session[r].sid # NoSid /\ session'[r].sid # session[r].sid)
                    => session[r].invalidated
               /\ response'[r].set_cookie
                    => /\ session'[r].sid # NoSid
                       /\ response'[r].value.payload = session'[r].sid
                       /\ log'[r][Len(log'[r])].op = "setex"
                       /\ log'[r][Len(log'[r])].key = redis_key(session'[r].sid)
               /\ (session[r].sid = NoSid /\ ~session[r].changed /\ ~session[r].invalidated)
                    => /\ session'[r].sid = NoSid
                       /\ log'[r] = << >>
                       /\ ~response'[r].set_cookie]_vars

\* C13 happens: on a brand-new session of an empty store the view read the
\* identifier, then generated a CSRF token, then read the identifier again and
\* got the first token drawn.
C13_Witness ==
  /\ pc[1] = "view"
  /\ outcome[1] = "no_cookie"
  /\ jar = {}
  /\ ops[1] = 3
  /\ call[1].name = "sid"
  /\ ret[1] = StrV(TokenName[1])
  /\ session[1].sid = TokenName[1]
  /\ Has(session[1].data, csrf_token_key)
  /\ session[1].data[csrf_token_key] = StrV(TokenName[2])

\* C14: when the response callback handles a session that is invalidated and
\* dirty, the entry it writes and the cookie it sets carry an identifier that
\* is not the one whose entry it deleted, nor one any earlier cookie carries.
C14_IdentifierRotation ==
  \A r \in Slots :
    (pc[r] = "done" /\ session[r].invalidated /\ session[r].changed)
      => /\ Len(log[r]) = 2
         /\ log[r][1].op = "delete"
         /\ log[r][2].op = "setex"
         /\ log[r][2].key # log[r][1].key
         /\ log[r][2].key = redis_key(session[r].sid)
         /\ response[r].value.payload = session[r].sid
         /\ cookie[r].payload # session[r].sid
         /\ \A c \in jar \ {response[r].value} : c.payload # session[r].sid

\* C14 happens: a loaded session was invalidated and written to again; the
\* entry of the identifier its cookie named is gone and the entry of the new
\* identifier is in the store.
C14_Witness ==
  /\ pc[1] = "done"
  /\ outcome[1] = "loaded"
  /\ session[1].invalidated
  /\ session[1].changed
  /\ log[1][1].key = Key(1)
  /\ ~store[Key(1)].present
  /\ store[redis_key(session[1].sid)].present
  /\ response[1].value.payload # cookie[1].payload

\* The methods that only read the session.
Readers == {"get", "peek_flash", "has_csrf_token"}

\* C15: get, peek_flash and has_csrf_token leave the dirty flag and the data as
\* they are, and the response callback on a session that is neither dirty nor
\* invalidated leaves the store, the cookies and the session as they are,
\* calls the store not at all and sets or clears no cookie.
C15_PersistNoOpWhenClean ==
  [][\A r \in Slots :
       /\ (pc[r] = "view" /\ attr[r] = "real" /\ ops'[r] = ops[r] + 1
            /\ call'[r].name \in Readers)
            => session'[r] = session[r]
       /\ (pc[r] \in {"respond", "raised"} /\ pc'[r] = "done"
            /\ ~session[r].changed /\ ~session[r].invalidated)
            => /\ store' = store
               /\ jar' = jar
               /\ last' = last
               /\ session'[r] = session[r]
               /\ log'[r] = << >>
               /\ response'[r] = NoResponse]_vars

\* C15 happens: a loaded session was only read, three times, and the response
\* is made; the entry is the one the earlier request wrote.
C15_Witness ==
  /\ pc[1] = "done"
  /\ outcome[1] = "loaded"
  /\ ops[1] = 3
  /\ call[1].name \in Readers
  /\ ~session[1].changed
  /\ ~session[1].invalidated
  /\ session[1].sid = cookie[1].payload
  /\ last[Key(1)].by = 0
  /\ store[Key(1)].present

\* C16, as stated: once the response callback has handled an invalidated
\* session that was loaded from a cookie, and so deleted its entry, a request
\* that starts later and presents that cookie gets a brand-new empty session,
\* whatever the other requests that loaded the session before have done.
C16_LogoutIsFinal ==
  [][\A r, q \in Slots :
       (/\ pc[r] = "idle" /\ pc'[r] # "idle"
        /\ pc[q] = "done"
        /\ outcome[q] = "loaded"
        /\ session[q].invalidated
        /\ cookie'[r] = cookie[q])
         => /\ outcome'[r] # "loaded"
            /\ BrandNew(session'[r])]_vars

\* C16, amended: such a request gets a brand-new empty session unless a
\* request that had loaded the same session before the deletion saved it after
\* the deletion; then the entry is that request's record and the old cookie
\* loads it.
C16_LogoutIsFinalUnlessResaved ==
  [][\A r, q \in Slots :
       (/\ pc[r] = "idle" /\ pc'[r] # "idle"
        /\ pc[q] = "done"
        /\ outcome[q] = "loaded"
        /\ session[q].invalidated
        /\ cookie'[r] = cookie[q])
         => IF last[Key(q)].op = "delete"
            THEN /\ outcome'[r] = "absent"
                 /\ BrandNew(session'[r])
            ELSE /\ last[Key(q)].op = "setex"
                 /\ last[Key(q)].by \in Slots \ {q, r}
                 /\ cookie[last[Key(q)].by] = cookie[q]
                 /\ outcome[last[Key(q)].by] = "loaded"
                 /\ outcome'[r] = "loaded"
                 /\ session'[r].data = session[last[Key(q)].by].data]_vars

\* C16 happens: requests 1 and 2 loaded the same session; request 1 changed
\* and saved it, request 2 invalidated it and its response deleted the entry;
\* request 3 presented the same cookie and found no entry.
C16_Witness ==
  /\ pc[1] = "done" /\ pc[2] = "done" /\ pc[3] = "view"
  /\ outcome[1] = "loaded" /\ outcome[2] = "loaded"
  /\ cookie[1] = cookie[2] /\ cookie[3] = cookie[2]
  /\ session[1].changed
  /\ session[2].invalidated
  /\ last[Key(2)].op = "delete"
  /\ last[Key(2)].by = 2
  /\ outcome[3] = "absent"
  /\ BrandNew(session[3])

\* C17, as stated: the value get_scoped_csrf_token(scope) returned as the last
\* call of a request whose response saved the session equals the value it
\* returns in the next request, which presents the cookie that response set.
C17_ScopedTokenStable ==
  \A sc \in Scopes :
    (/\ pc[1] = "done"
     /\ Scoped(1) /\ call[1].k = sc
     /\ response[1].set_cookie
     /\ cookie[2] = response[1].value
     /\ outcome[2] = "loaded"
     /\ pc[2] = "view"
     /\ Scoped(2) /\ call[2].k = sc
     /\ ops[2] = 1)
      => ret[2] = ret[1]

\* How _process_request answers when it rejects a cookie and returns.
Rejected == {"bad_signature", "absent", "undecodable"}

\* C18: a session the factory returned after rejecting a cookie has no
\* identifier when the view starts and never the cookie's identifier later; no
\* store call of its response callback is on the key the cookie names and the
\* cookie that callback sets does not carry the cookie's identifier.
C18_NoIdentifierAdoption ==
  \A r \in Slots :
    (outcome[r] \in Rejected /\ pc[r] \in {"view", "respond", "raised", "done"})
      => /\ Arrived(r) => session[r].sid = NoSid
         /\ session[r].sid # cookie[r].payload
         /\ \A i \in 1..Len(log[r]) : log[r][i].key # Key(r)
         /\ response[r].set_cookie => response[r].value.payload # cookie[r].payload

\* C18 happens: the cookie named an entry that was damaged; the view wrote to
\* the session the factory returned and the response saved it; the damaged
\* entry is still in the store.
C18_Witness ==
  /\ pc[1] = "done"
  /\ outcome[1] = "undecodable"
  /\ response[1].set_cookie
  /\ store[Key(1)].present
  /\ last[Key(1)].op = "damage"
  /\ store[redis_key(session[1].sid)].present

\* C19: while a view uses the session, a session that is neither dirty nor
\* invalidated holds exactly the data it was constructed with.
C19_NoUnflaggedChange ==
  \A r \in Slots :
    (pc[r] \in {"view", "respond", "raised", "done"}
     /\ ~session[r].changed /\ ~session[r].invalidated)
      => session[r].data = loaded[r]

\* C19 happens: the view made three calls on a loaded session that holds a
\* flash queue, the last of them a read, and the session is not dirty.
C19_Witness ==
  /\ pc[1] = "view"
  /\ attr[1] = "real"
  /\ ops[1] = 3
  /\ call[1].name \in Readers \cup {"sid"}
  /\ err[1] = "none"
  /\ ~session[1].changed
  /\ ~session[1].invalidated
  /\ Has(loaded[1], flash_key)
  /\ session[1].data = loaded[1]

\* The first call of the view of slot r, on the real session, names a key or a
\* queue the session was constructed without.
FirstCallOnAbsent(r) ==
  /\ ops[r] = 1
  /\ pc[r] \in {"view", "respond", "raised", "done"}
  /\ err[r] # "RuntimeError"
  /\ \/ call[r].name \in {"delitem", "pop", "pop_default"} /\ ~Has(loaded[r], call[r].k)
     \/ call[r].name = "pop_flash" /\ ~Has(loaded[r], get_flash_queue_key(call[r].k))

\* C20: a delete or a pop without default of an absent key raises KeyError, a
\* pop with default or pop_flash of an absent key returns; each leaves the data
\* as it was and the session dirty, and the response callback that follows
\* writes the entry and sets the cookie.
C20_DirtyBeforeOperation ==
  \A r \in Slots :
    FirstCallOnAbsent(r)
      => /\ err[r] = (IF call[r].name \in {"delitem", "pop"} THEN "KeyError" ELSE "none")
         /\ session[r].data = loaded[r]
         /\ session[r].changed
         /\ should_save(session[r])
         /\ pc[r] = "done"
              => /\ log[r] = <<StoreOp("setex", redis_key(session[r].sid),
                                       packb(loaded[r]), max_age)>>
                 /\ store[redis_key(session[r].sid)] = Entry(packb(loaded[r]), now + max_age)
                 /\ response[r].set_cookie
                 /\ response[r].value = sign(session[r].sid, now)

\* C20 happens: the view popped, without default, a key the loaded session
\* does not hold, KeyError was raised, and the response wrote the entry again.
C20_Witness ==
  /\ pc[1] = "done"
  /\ outcome[1] = "loaded"
  /\ ops[1] = 1
  /\ call[1].name = "pop"
  /\ ~Has(loaded[1], call[1].k)
  /\ err[1] = "KeyError"
  /\ last[Key(1)].by = 1
  /\ response[1].set_cookie

====
